---------------------------- MODULE Spec2Model ----------------------------
(***************************************************************************)
(* A model of the rust-brainfuck interpreter: the operator table           *)
(* (operators.rs), the bracket-matching parser (ast.rs), the dense tape    *)
(* (storage.rs) and the tree-walking machine (machine.rs), driven the way  *)
(* main.rs drives them: parse a source, build a fresh machine, run it.     *)
(*                                                                         *)
(* Spec      the pipeline of main.rs on one source string.                 *)
(* ParseSpec Ast::parse_str alone, on every short source string.           *)
(* FairSpec  the same, with the machine's steps weakly fair (a single      *)
(*           thread that is never suspended).                              *)
(* TapeSpec  a fresh VectorTape driven directly through wind, cell and     *)
(*           mutate, as the #[test]s of storage.rs drive it.               *)
(* PairSpec  a fresh VectorTape and a fresh SparseTape given the same      *)
(*           calls, near and far from cell 0.                              *)
(* SweepSpec the 30,000-cell sweep of the tests, on both tapes.            *)
(* TwoRunSpec, FairTwoRunSpec                                              *)
(*           two run_program calls on one machine, then the two programs   *)
(*           as one on a new machine with the same input.                  *)
(***************************************************************************)
EXTENDS Integers, Sequences, FiniteSets, TLC

VARIABLES
    source,     \* the source string handed to Ast::parse_str, a sequence of chars
    ppos,       \* parse_str: number of chars of source already consumed
    stack,      \* parse_str: stack, the contexts of the enclosing open loops
    ops,        \* parse_str: ops, the context being collected
    parsed,     \* parse_str: its return value, once it has returned
    tape,       \* Machine.tape: a VectorTape<u8>, [storage, cur]
    pc,         \* Machine.pc
    frames,     \* the active run_program calls, outermost first
    ret,        \* an Err(msg) a callee has returned and its caller has not matched yet
    result,     \* what the top-level run_program call returned to main
    stdin,      \* the input stream: "open" or "eof" (exhausted)
    stdout,     \* the bytes written to the output sink so far
    counted,    \* observer: operators executed in this run, by kind
    last,       \* observer: the operator executed by the latest step
    probe,      \* TapeSpec: what the latest direct tape call returned
    sparse,     \* a SparseTape<u8>, [storage, cur], given the calls tape is given
    watch,      \* observer: the direct calls made on the two tapes, with what they returned
    plan        \* TwoRunSpec: the programs to run, the run in progress, what was observed

vars == << source, ppos, stack, ops, parsed, tape, pc, frames, ret, result,
           stdin, stdout, counted, last, probe, sparse, watch, plan >>

parserVars == << source, ppos, stack, ops, parsed >>
machineVars == << pc, frames, ret, result, stdin, stdout, counted, last >>
pairVars == << sparse, watch >>
driverVars == << probe, sparse, watch, plan >>

---------------------------------------------------------------------------
(* Bounds of the model.                                                    *)

\* Every source string of at most this many chars is parsed and run.
MaxSrcLen == 3
\* Width, in bits, of the model's uint cycle counter (the code's is a machine word).
UintBits == 4
\* The output sink accepts at most this many bytes before the model stops writing.
MaxOut == 3
\* ParseSpec: every source string of at most this many chars is parsed.
MaxParseLen == 4
\* TapeSpec: the head is not wound further right than this position.
MaxHead == 30001
\* TapeSpec: at most this many mutate calls, all at positions below MaxWriteHead.
MaxWrites == 1
MaxWriteHead == 2
\* TwoRunSpec: the two programs are of at most this many chars each, or loops
\* picked by hand, and read at most MaxIn bytes between them.
MaxRunLen == 2
MaxIn == 2

(* Constants of the program.                                               *)

\* Unit = u8: cell values are 0 .. 255 and arithmetic is modulo 256.
CellMod == 256
\* VectorTape::new allocates this many cells.
VecLen == 30000

UintMod == 2 ^ UintBits

Max(a, b) == IF a >= b THEN a ELSE b

---------------------------------------------------------------------------
(* operators.rs: the operator table.                                       *)

Op(kind)  == [op |-> kind, c |-> "", ast |-> << >>]
Nop(ch)   == [op |-> "Nop", c |-> ch, ast |-> << >>]
Sub(body) == [op |-> "Sub", c |-> "", ast |-> body]

\* impl FromStr for Operator: total, every other char is a Nop carrying it.
FromStr(ch) ==
    CASE ch = "+" -> Op("Incr")
      [] ch = "-" -> Op("Decr")
      [] ch = "<" -> Op("Prev")
      [] ch = ">" -> Op("Next")
      [] ch = "[" -> Op("Skip")
      [] ch = "]" -> Op("Loop")
      [] ch = "." -> Op("Put")
      [] ch = "," -> Op("Get")
      [] OTHER    -> Nop(ch)

---------------------------------------------------------------------------
(* ast.rs: Ast::parse_str, one loop iteration per action.                  *)

\* The two messages of parse_str (the code quotes the bracket in backticks).
ErrClose == "Unmatched ]."
ErrOpen  == "Unmatched [."

NoResult == [tag |-> "None", msg |-> ""]
OkResult == [tag |-> "Ok", msg |-> ""]
ErrResult(m) == [tag |-> "Err", msg |-> m]

\* The parser locals: [stack, ops, res].
ParserInit == [stack |-> << >>, ops |-> << >>, res |-> NoResult]

\* Mutant: the enter-loop operator is also kept in the enclosing context.
ParseSkipKeepsDelimiter(p) ==
    [p EXCEPT !.stack = Append(p.stack, Append(p.ops, Op("Skip"))), !.ops = << >>]

\* Some(Skip): push the context on the stack and start a new one.
ParseSkip(p) ==
    [p EXCEPT !.stack = Append(p.stack, p.ops), !.ops = << >>]

\* Some(Loop): wrap the context in a Sub and push it on the popped context;
\* an empty stack is an unmatched ].
ParseLoop(p) ==
    IF Len(p.stack) = 0
    THEN [p EXCEPT !.res = ErrResult(ErrClose)]
    ELSE [p EXCEPT !.stack = SubSeq(p.stack, 1, Len(p.stack) - 1),
                   !.ops = Append(p.stack[Len(p.stack)], Sub(p.ops))]

\* Mutant: a char that is no operator is skipped (the arm "_ => continue").
ParseTokenDropsComments(p, token) ==
    LET o == FromStr(token) IN
    IF o.op = "Skip" THEN ParseSkip(p)
    ELSE IF o.op = "Loop" THEN ParseLoop(p)
    ELSE IF o.op = "Nop" THEN p
    ELSE [p EXCEPT !.ops = Append(p.ops, o)]

\* One iteration of for token in source.chars().
ParseTokenOf(p, token) ==
    LET o == FromStr(token) IN
    IF o.op = "Skip" THEN ParseSkip(p)
    ELSE IF o.op = "Loop" THEN ParseLoop(p)
    ELSE [p EXCEPT !.ops = Append(p.ops, o)]

\* Mutant: the stack is not looked at after the loop.
ParseEndNoCheck(p) == [p EXCEPT !.res = OkResult]

\* After the loop: a non-empty stack is an unmatched [.
ParseEndOf(p) ==
    IF Len(p.stack) # 0
    THEN [p EXCEPT !.res = ErrResult(ErrOpen)]
    ELSE [p EXCEPT !.res = OkResult]

ParseToken ==
    /\ parsed.tag = "None"
    /\ ppos < Len(source)
    /\ LET p == ParseTokenOf([stack |-> stack, ops |-> ops, res |-> parsed],
                             source[ppos + 1])
       IN  /\ stack' = p.stack
           /\ ops' = p.ops
           /\ parsed' = p.res
    /\ ppos' = ppos + 1
    /\ UNCHANGED << source, tape, driverVars >>
    /\ UNCHANGED machineVars

ParseEnd ==
    /\ parsed.tag = "None"
    /\ ppos = Len(source)
    /\ LET p == ParseEndOf([stack |-> stack, ops |-> ops, res |-> parsed])
       IN  /\ stack' = p.stack
           /\ ops' = p.ops
           /\ parsed' = p.res
    /\ UNCHANGED << source, ppos, tape, driverVars >>
    /\ UNCHANGED machineVars

\* Ast::parse_str as a function of the source: the loop, left at the first
\* error, then the check of the stack.
RECURSIVE ParseFrom(_, _, _)
ParseFrom(p, s, i) ==
    IF p.res.tag # "None" THEN p
    ELSE IF i > Len(s) THEN ParseEndOf(p)
    ELSE ParseFrom(ParseTokenOf(p, s[i]), s, i + 1)

ParseStr(s) == ParseFrom(ParserInit, s, 1)

---------------------------------------------------------------------------
(* impl fmt::Show for Operator and for Ast: the text of a program.         *)

RECURSIVE ShowAst(_), ShowOp(_)

\* Mutant: a nested program is written without its brackets.
ShowOpLoopUnbracketed(o) ==
    CASE o.op = "Incr" -> << "+" >>
      [] o.op = "Decr" -> << "-" >>
      [] o.op = "Prev" -> << "<" >>
      [] o.op = "Next" -> << ">" >>
      [] o.op = "Skip" -> << "[" >>
      [] o.op = "Loop" -> << "]" >>
      [] o.op = "Put"  -> << "." >>
      [] o.op = "Get"  -> << "," >>
      [] o.op = "Nop"  -> << o.c >>
      [] o.op = "Sub"  -> ShowAst(o.ast)

\* impl fmt::Show for Operator
ShowOp(o) ==
    CASE o.op = "Incr" -> << "+" >>
      [] o.op = "Decr" -> << "-" >>
      [] o.op = "Prev" -> << "<" >>
      [] o.op = "Next" -> << ">" >>
      [] o.op = "Skip" -> << "[" >>
      [] o.op = "Loop" -> << "]" >>
      [] o.op = "Put"  -> << "." >>
      [] o.op = "Get"  -> << "," >>
      [] o.op = "Nop"  -> << o.c >>
      [] o.op = "Sub"  -> << "[" >> \o ShowAst(o.ast) \o << "]" >>

\* impl fmt::Show for Ast: the operators, each displayed, concatenated.
ShowAst(ast) ==
    IF ast = << >> THEN << >> ELSE ShowOp(Head(ast)) \o ShowAst(Tail(ast))

---------------------------------------------------------------------------
(* storage.rs: VectorTape<u8>.                                             *)

\* A finite map from integers to values is kept as its runs: the set of
\* the maximal intervals [lo, hi] of keys bound to one and the same value.
\* A tape swept from end to end is then a few runs, not 30,000 entries.
RunsHas(S, i) == \E r \in S : r.lo <= i /\ i <= r.hi
RunsAt(S, i) == (CHOOSE r \in S : r.lo <= i /\ i <= r.hi).val
\* The map without key i: the run that holds i is split around it.
RunsCut(S, i) ==
    LET at == {r \in S : r.lo <= i /\ i <= r.hi}
    IN  (S \ at)
          \cup {[r EXCEPT !.hi = i - 1] : r \in {q \in at : q.lo < i}}
          \cup {[r EXCEPT !.lo = i + 1] : r \in {q \in at : i < q.hi}}
\* The map with key i bound to x: joined to the runs of x that touch i.
RunsPut(S, i, x) ==
    LET cut == RunsCut(S, i)
        left == {r \in cut : r.hi = i - 1 /\ r.val = x}
        right == {r \in cut : r.lo = i + 1 /\ r.val = x}
        lo == IF left = {} THEN i ELSE (CHOOSE r \in left : TRUE).lo
        hi == IF right = {} THEN i ELSE (CHOOSE r \in right : TRUE).hi
    IN  (cut \ (left \cup right)) \cup {[lo |-> lo, hi |-> hi, val |-> x]}
\* Every key at which two maps can differ lies in an interval, of keys on
\* which both are constant, that holds one of these keys.
RunsEdges(S) == UNION {{r.lo - 1, r.lo, r.hi, r.hi + 1} : r \in S}

\* A Vec<T> of len cells, kept as its fill value and the cells that differ
\* from it (Vec::from_elem(len, fill) has none).
VecFromElem(len, fill) == [len |-> len, fill |-> fill, set |-> {}]

VecGet(v, i) == IF RunsHas(v.set, i) THEN RunsAt(v.set, i) ELSE v.fill

VecSet(v, i, x) ==
    [v EXCEPT !.set = IF x = v.fill THEN RunsCut(@, i) ELSE RunsPut(@, i, x)]

\* Mutant: a tape one cell short.
VectorTapeOneShort == [storage |-> VecFromElem(VecLen - 1, 0), cur |-> 0]

\* VectorTape::new
VectorTapeNew == [storage |-> VecFromElem(VecLen, 0), cur |-> 0]

\* Mutant: the head is not held at the left edge.
WindUnclamped(t, offset) == [t EXCEPT !.cur = t.cur + offset]

\* VectorTape::wind
Wind(t, offset) == [t EXCEPT !.cur = Max(0, t.cur + offset)]

\* self.cur.to_uint().unwrap_or(Zero::zero()): the index cell() asks the Vec for.
CellIndex(t) == IF t.cur >= 0 THEN t.cur ELSE 0

\* Vec::get_mut fails the task when the index is not below the length;
\* nothing in VectorTape changes the length of storage.
CellInBounds(t) == CellIndex(t) < t.storage.len

\* VectorTape::cell, read through the reference it returns.
CellRead(t) == VecGet(t.storage, CellIndex(t))

\* Mutant: the reference is always to the first cell.
CellWriteAtStart(t, x) == [t EXCEPT !.storage = VecSet(t.storage, 0, x)]

\* VectorTape::cell, written through the reference it returns.
CellWrite(t, x) == [t EXCEPT !.storage = VecSet(t.storage, CellIndex(t), x)]

---------------------------------------------------------------------------
(* storage.rs: SparseTape<u8>.                                             *)

\* Mutant: insert, which binds k to v whether it was bound or not.
MapInsert(m, k, v) == RunsPut(m, k, v)

\* HashMap::find_or_insert(k, v): the map, with k bound to v if it was not bound.
MapFindOrInsert(m, k, v) ==
    IF RunsHas(m, k) THEN m ELSE RunsPut(m, k, v)

\* SparseTape::new
SparseTapeNew == [storage |-> {}, cur |-> 0]

\* Mutant: the sparse tape stops at the left edge as the dense one does.
SparseWindClamped(t, offset) == [t EXCEPT !.cur = Max(0, t.cur + offset)]

\* SparseTape::wind
SparseWind(t, offset) == [t EXCEPT !.cur = t.cur + offset]

\* SparseTape::cell: the tape once the reference has been handed out.
SparseCell(t) == [t EXCEPT !.storage = MapFindOrInsert(t.storage, t.cur, 0)]

\* SparseTape::cell, read through the reference it returns.
SparseRead(t) == RunsAt(SparseCell(t).storage, t.cur)

\* SparseTape::cell, written through the reference it returns.
SparseWrite(t, x) == [SparseCell(t) EXCEPT !.storage = RunsPut(@, t.cur, x)]

---------------------------------------------------------------------------
(* machine.rs: Machine::run_program.                                       *)

\* Mutant: a cell wider than a byte.
U8NoWrap(x) == x

\* u8 arithmetic wraps.
U8(x) == x % CellMod
\* Mutant: a decrement that saturates at zero.
MutDecrSaturating(v) == IF v = 0 THEN 0 ELSE v - 1

\* |v|{ *v -= 1; } and |v|{ *v += 1; }
MutDecr(v) == U8(v - 1)
MutIncr(v) == U8(v + 1)

\* uint arithmetic of the cycle counters.
UAdd(a, b) == (a + b) % UintMod

\* What the environment answers to one I/O call.
IoNone == [kind |-> "none", byte |-> 0]
InputBytes == {0, 1, 255}
ReadOutcomes(in) ==
    IF in = "eof" THEN {[kind |-> "eof", byte |-> 0]}
    ELSE {[kind |-> "eof", byte |-> 0]} \cup {[kind |-> "byte", byte |-> b] : b \in InputBytes}
WriteOutcomes == {[kind |-> "ok", byte |-> 0], [kind |-> "werr", byte |-> 0]}

\* Mutant: end of input read as -1, that is 255 in a u8.
ByteInEofAsMax(io) == IF io.kind = "byte" THEN io.byte ELSE CellMod - 1

\* stdin_raw().read_u8().ok().unwrap_or(0)
ByteIn(io) == IF io.kind = "byte" THEN io.byte ELSE 0

ErrWrite == "Cannot not write to stdout."

NewFrame(ast) == [ast |-> ast, cycles |-> 0, saved |-> 0, inloop |-> FALSE]

Depth == Len(frames)
Top == frames[Depth]
Callers == SubSeq(frames, 1, Depth - 1)

Running == result.tag = "Running" /\ ret.tag = "None" /\ Depth > 0
\* ops.get(self.pc) is Some(..)
AtOp == Running /\ ~Top.inloop /\ pc < Len(Top.ast)
CurOp == Top.ast[pc + 1]

NeedsCell(kind) == kind \in {"Decr", "Incr", "Get", "Put"}

\* The tape after one operator other than Sub.
TapeAfter(t, kind, io) ==
    CASE kind = "Decr" -> CellWrite(t, MutDecr(CellRead(t)))
      [] kind = "Incr" -> CellWrite(t, MutIncr(CellRead(t)))
      [] kind = "Prev" -> Wind(t, -1)
      [] kind = "Next" -> Wind(t, 1)
      [] kind = "Get"  -> CellWrite(t, ByteIn(io))
      [] OTHER         -> t

\* Mutants: an operator, or a finished loop, that is not counted.
CyclesAfterOpNone(c) == c
CyclesAfterSubNone(c) == c

\* cycles += 1 after the match, for every Some(..) arm.
CyclesAfterOp(c) == UAdd(c, 1)
\* The same statement after the Sub arm.
CyclesAfterSub(c) == UAdd(c, 1)
\* Ok(cls) => cycles += cls
CyclesAfterPass(c, cls) == UAdd(c, cls)
\* Mutant: the condition as the comment above the Sub arm words it.
LoopContinuesInverted(v) == v = 0
\* Mutant: a loop that gives up one pass early.
LoopContinuesAboveOne(v) == v > 1

\* while *self.tape.cell() != 0
LoopContinues(v) == v # 0
\* Mutant: self.pc is left where the last pass ended.
PcAfterSubNotRestored(saved) == pc + 1
\* self.pc = pc, then self.pc += 1
PcAfterSub(saved) == saved + 1
\* Mutant: the error of a pass is dropped.
PassErrDropped(msg) == NoResult

\* Err(msg) => return Err(msg)
PassErr(msg) == ErrResult(msg)

RunResult(tag, cycles, msg) == [tag |-> tag, cycles |-> cycles, msg |-> msg]
NoCount == [prims |-> 0, subs |-> 0]
NoLast == [op |-> "", cell |-> 0, io |-> "none", depth |-> 0, pc |-> 0]
\* No cell value: what probe.val holds when the latest call was not a read.
NoVal == CellMod
NoProbe == [ok |-> TRUE, call |-> "new", arg |-> 0, from |-> 0, val |-> NoVal, writes |-> 0]
NoWatch == << >>
NoMemo == [tape |-> VectorTapeNew, stdout |-> << >>, cycles |-> 0, log |-> << >>]
NoPlan == [phase |-> "off", p |-> << >>, q |-> << >>, log |-> << >>, cycles |-> 0,
           memo |-> NoMemo]

\* The input stream of an experiment with two runs. The bytes read are
\* logged, at most MaxIn of them, and the joined run is fed, as far as they
\* go, the bytes the two separate runs were fed. Outside such an experiment
\* (plan.phase = "off") nothing is logged and nothing is held back.
InputAsPlanned(kind, io) ==
    (plan.phase # "off" /\ kind = "Get") =>
        /\ Len(plan.log) < MaxIn
        /\ (plan.phase = "joined" /\ Len(plan.log) < Len(plan.memo.log)) =>
               io = plan.memo.log[Len(plan.log) + 1]
PlanAfter(kind, io) ==
    IF plan.phase = "off" \/ kind # "Get" THEN plan
    ELSE [plan EXCEPT !.log = Append(@, io)]

\* Mutant: run_program goes on from where the last run left self.pc.
PcAtEntryKept(old) == old
\* self.pc = 0
PcAtEntry(old) == 0

\* main.rs: Machine::new() and the top-level run_program(&program).
Call ==
    /\ parsed.tag = "Ok"
    /\ result.tag = "None"
    /\ tape' = VectorTapeNew
    /\ pc' = 0
    /\ frames' = << NewFrame(ops) >>
    /\ result' = RunResult("Running", 0, "")
    /\ UNCHANGED << ret, stdin, stdout, counted, last, driverVars >>
    /\ UNCHANGED parserVars

\* The task fails: an index out of the bounds of storage.
Fails ==
    /\ frames' = << >>
    /\ result' = RunResult("Fail", 0, "index out of bounds")
    /\ UNCHANGED << tape, pc, ret, stdin, stdout, counted >>

\* A run_program call returns Err(msg) to its caller, or to main.
ReturnsErr(msg) ==
    /\ frames' = Callers
    /\ IF Depth = 1
       THEN result' = RunResult("Err", 0, msg) /\ ret' = NoResult
       ELSE ret' = PassErr(msg) /\ UNCHANGED result

\* One operator other than Sub: the match arm, then cycles += 1; self.pc += 1.
ExecOp ==
    /\ AtOp
    /\ CurOp.op # "Sub"
    /\ CurOp.op = "Put" => Len(stdout) < MaxOut
    /\ \E io \in (IF CurOp.op = "Get" THEN ReadOutcomes(stdin)
                  ELSE IF CurOp.op = "Put" THEN WriteOutcomes ELSE {IoNone}) :
         /\ InputAsPlanned(CurOp.op, io)
         /\ plan' = PlanAfter(CurOp.op, io)
         /\ last' = [op |-> CurOp.op, io |-> io.kind, depth |-> Depth, pc |-> pc,
                     cell |-> IF CellInBounds(tape) THEN CellRead(tape) ELSE 0]
         /\ IF NeedsCell(CurOp.op) /\ ~CellInBounds(tape)
            THEN Fails
            ELSE IF io.kind = "werr"
            THEN /\ ReturnsErr(ErrWrite)
                 /\ UNCHANGED << tape, pc, stdin, stdout, counted >>
            ELSE /\ tape' = TapeAfter(tape, CurOp.op, io)
                 /\ stdin' = IF io.kind = "eof" THEN "eof" ELSE stdin
                 /\ stdout' = IF CurOp.op = "Put" THEN Append(stdout, CellRead(tape))
                              ELSE stdout
                 /\ frames' = [frames EXCEPT ![Depth].cycles = CyclesAfterOp(@)]
                 /\ pc' = pc + 1
                 /\ counted' = [counted EXCEPT !.prims = UAdd(@, 1)]
                 /\ UNCHANGED << ret, result >>
    /\ UNCHANGED << probe, pairVars >>
    /\ UNCHANGED parserVars

\* Some(&Sub(ref ast)): let pc = self.pc.
EnterSub ==
    /\ AtOp
    /\ CurOp.op = "Sub"
    /\ frames' = [frames EXCEPT ![Depth].saved = pc, ![Depth].inloop = TRUE]
    /\ last' = [op |-> "Sub", io |-> "enter", depth |-> Depth, pc |-> pc,
                cell |-> IF CellInBounds(tape) THEN CellRead(tape) ELSE 0]
    /\ UNCHANGED << tape, pc, ret, result, stdin, stdout, counted, driverVars >>
    /\ UNCHANGED parserVars

\* The while condition of the Sub arm: another pass of the body (a recursive
\* run_program call, which resets self.pc), or the end of the loop.
LoopTest ==
    /\ Running
    /\ Top.inloop
    /\ IF ~CellInBounds(tape)
       THEN Fails /\ UNCHANGED last
       ELSE IF LoopContinues(CellRead(tape))
       THEN /\ frames' = Append(frames, NewFrame(Top.ast[Top.saved + 1].ast))
            /\ pc' = 0
            /\ last' = [op |-> "Sub", io |-> "pass", depth |-> Depth, pc |-> Top.saved,
                        cell |-> CellRead(tape)]
            /\ UNCHANGED << tape, ret, result, stdin, stdout, counted >>
       ELSE /\ frames' = [frames EXCEPT ![Depth].inloop = FALSE,
                                        ![Depth].cycles = CyclesAfterSub(@)]
            /\ pc' = PcAfterSub(Top.saved)
            /\ counted' = [counted EXCEPT !.subs = UAdd(@, 1)]
            /\ last' = [op |-> "Sub", io |-> "exit", depth |-> Depth, pc |-> Top.saved,
                        cell |-> CellRead(tape)]
            /\ UNCHANGED << tape, ret, result, stdin, stdout >>
    /\ UNCHANGED driverVars
    /\ UNCHANGED parserVars

\* ops.get(self.pc) is None: break, Ok(cycles); the caller adds it to its own.
Return ==
    /\ Running
    /\ ~Top.inloop
    /\ pc >= Len(Top.ast)
    /\ IF Depth = 1
       THEN /\ frames' = << >>
            /\ result' = RunResult("Ok", Top.cycles, "")
       ELSE /\ frames' = [Callers EXCEPT
                            ![Depth - 1].cycles = CyclesAfterPass(@, Top.cycles)]
            /\ UNCHANGED result
    /\ last' = [op |-> "", io |-> "return", depth |-> Depth, pc |-> pc, cell |-> 0]
    /\ UNCHANGED << tape, pc, ret, stdin, stdout, counted, driverVars >>
    /\ UNCHANGED parserVars

\* Err(msg) => return Err(msg), in a caller whose pass has failed.
Propagate ==
    /\ result.tag = "Running"
    /\ ret.tag = "Err"
    /\ Depth > 0
    /\ ReturnsErr(ret.msg)
    /\ last' = [op |-> "", io |-> "unwind", depth |-> Depth, pc |-> pc, cell |-> 0]
    /\ UNCHANGED << tape, pc, stdin, stdout, counted, driverVars >>
    /\ UNCHANGED parserVars

MachineStep == ExecOp \/ EnterSub \/ LoopTest \/ Return \/ Propagate

---------------------------------------------------------------------------
(* The sources the pipeline is run on.                                     *)

Alphabet == {"+", "-", "<", ">", ".", ",", "[", "]", "a"}
Repeat(ch, n) == [i \in 1 .. n |-> ch]
ShortSources == UNION {[1 .. n -> Alphabet] : n \in 0 .. MaxSrcLen}
\* Longer programs: the clear loop from every start value, a nested clear
\* loop, and writes inside nested loops.
NamedSources ==
    {Repeat("+", k) \o << "[", "-", "]" >> : k \in 1 .. CellMod - 1}
    \cup { << "+", "+", "[", "[", "-", "]", "-", "]" >>,
           << ">", "-", "[", "-", "]" >>,
           << "+", "[", ".", ">", "+", "]" >>,
           << "+", "[", "[", ".", "]", ">", "+", "]" >>,
           << "+", "[", "[", "-", "]", "]", "a" >>,
           << "+", "[", "-", "a", "]", "[", "+", "]" >> }
Sources == ShortSources \cup NamedSources

Init ==
    /\ source \in Sources
    /\ ppos = 0
    /\ stack = ParserInit.stack
    /\ ops = ParserInit.ops
    /\ parsed = ParserInit.res
    /\ tape = VectorTapeNew
    /\ pc = 0
    /\ frames = << >>
    /\ ret = NoResult
    /\ result = RunResult("None", 0, "")
    /\ stdin = "open"
    /\ stdout = << >>
    /\ counted = NoCount
    /\ last = NoLast
    /\ probe = NoProbe
    /\ sparse = SparseTapeNew
    /\ watch = NoWatch
    /\ plan = NoPlan

Next == ParseToken \/ ParseEnd \/ Call \/ MachineStep

Spec == Init /\ [][Next]_vars

\* One thread runs the interpreter and nothing suspends it.
FairSpec == Spec /\ WF_vars(Next)

---------------------------------------------------------------------------
(* Ast::parse_str alone.                                                   *)

ParseSources == UNION {[1 .. n -> Alphabet] : n \in 0 .. MaxParseLen}

ParseInit ==
    /\ source \in ParseSources
    /\ ppos = 0
    /\ stack = ParserInit.stack
    /\ ops = ParserInit.ops
    /\ parsed = ParserInit.res
    /\ tape = VectorTapeNew
    /\ pc = 0
    /\ frames = << >>
    /\ ret = NoResult
    /\ result = RunResult("None", 0, "")
    /\ stdin = "open"
    /\ stdout = << >>
    /\ counted = NoCount
    /\ last = NoLast
    /\ probe = NoProbe
    /\ sparse = SparseTapeNew
    /\ watch = NoWatch
    /\ plan = NoPlan

ParseNext == ParseToken \/ ParseEnd

ParseSpec == ParseInit /\ [][ParseNext]_vars

---------------------------------------------------------------------------
(* A fresh VectorTape driven directly, as the tests of storage.rs drive    *)
(* it: wind by one cell either way, read the cell, mutate the cell.        *)

WindOffsets == {-1, 1}

TapeLive == probe.ok /\ result.tag = "None" /\ parsed.tag = "None"

\* t.wind(offset)
TWind ==
    /\ TapeLive
    /\ \E offset \in WindOffsets :
         /\ tape.cur + offset <= MaxHead
         /\ tape' = Wind(tape, offset)
         /\ probe' = [probe EXCEPT !.call = "wind", !.arg = offset,
                                    !.from = tape.cur, !.val = NoVal]
    /\ UNCHANGED parserVars
    /\ UNCHANGED << pairVars, plan >>
    /\ UNCHANGED machineVars

\* *t.cell(): the value read, or the failure of the task.
TCell ==
    /\ TapeLive
    /\ IF CellInBounds(tape)
       THEN probe' = [probe EXCEPT !.call = "cell", !.arg = 0, !.from = tape.cur,
                                   !.val = CellRead(tape)]
       ELSE probe' = [probe EXCEPT !.call = "cell", !.arg = 0, !.from = tape.cur,
                                   !.ok = FALSE, !.val = NoVal]
    /\ UNCHANGED tape
    /\ UNCHANGED parserVars
    /\ UNCHANGED << pairVars, plan >>
    /\ UNCHANGED machineVars

\* t.mutate( |v|{ *v += 1; } )
TMutate ==
    /\ TapeLive
    /\ probe.writes < MaxWrites
    /\ tape.cur < MaxWriteHead
    /\ IF CellInBounds(tape)
       THEN /\ tape' = CellWrite(tape, MutIncr(CellRead(tape)))
            /\ probe' = [probe EXCEPT !.call = "mutate", !.arg = 0, !.from = tape.cur,
                                       !.val = NoVal, !.writes = @ + 1]
       ELSE /\ probe' = [probe EXCEPT !.call = "mutate", !.arg = 0, !.from = tape.cur,
                                       !.ok = FALSE, !.val = NoVal]
            /\ UNCHANGED tape
    /\ UNCHANGED parserVars
    /\ UNCHANGED << pairVars, plan >>
    /\ UNCHANGED machineVars

TapeInit ==
    /\ source = << >>
    /\ ppos = 0
    /\ stack = ParserInit.stack
    /\ ops = ParserInit.ops
    /\ parsed = ParserInit.res
    /\ tape = VectorTapeNew
    /\ pc = 0
    /\ frames = << >>
    /\ ret = NoResult
    /\ result = RunResult("None", 0, "")
    /\ stdin = "open"
    /\ stdout = << >>
    /\ counted = NoCount
    /\ last = NoLast
    /\ probe = NoProbe
    /\ sparse = SparseTapeNew
    /\ watch = NoWatch
    /\ plan = NoPlan

TapeNext == TWind \/ TCell \/ TMutate

TapeSpec == TapeInit /\ [][TapeNext]_vars

---------------------------------------------------------------------------
(* A fresh VectorTape and a fresh SparseTape given the same calls: wind by *)
(* a cell or by a long way, read the cell, mutate the cell. A failed call  *)
(* ends the task that drives the dense tape; the sparse one goes on.       *)

\* PairSpec: the long winds are by this many cells.
FarOffset == 50000
\* PairSpec: this many calls are made on each tape.
MaxPairOps == 5

PairOffsets == {-FarOffset, -1, 1, VecLen - 1, FarOffset}
\* The closures handed to mutate: |v| *v += 1 and |v| *v -= 1.
PairMutations == {"Incr", "Decr"}
MutateBy(kind, v) == IF kind = "Incr" THEN MutIncr(v) ELSE MutDecr(v)

\* What one call did: the call, whether the dense tape's task is alive, the
\* two heads after it, and the cell values read, or written, through the
\* reference.
Seen(call, arg, ok, d, dval, s, sval) ==
    [call |-> call, arg |-> arg, ok |-> ok,
     dcur |-> d.cur, dval |-> dval, scur |-> s.cur, sval |-> sval]

PairLive == Len(watch) < MaxPairOps /\ parsed.tag = "None" /\ result.tag = "None"

\* t.wind(offset), on both tapes
PWind ==
    /\ PairLive
    /\ \E offset \in PairOffsets :
         /\ tape' = IF probe.ok THEN Wind(tape, offset) ELSE tape
         /\ sparse' = SparseWind(sparse, offset)
         /\ probe' = [probe EXCEPT !.call = "wind", !.arg = offset,
                                    !.from = tape.cur, !.val = NoVal]
         /\ watch' = Append(watch, Seen("wind", offset, probe.ok, tape', NoVal,
                                        sparse', NoVal))
    /\ UNCHANGED << parserVars, machineVars, plan >>

\* *t.cell(), on both tapes
PCell ==
    /\ PairLive
    /\ probe' = [probe EXCEPT !.call = "cell", !.arg = 0, !.from = tape.cur,
                   !.ok = @ /\ CellInBounds(tape),
                   !.val = IF probe.ok /\ CellInBounds(tape) THEN CellRead(tape)
                           ELSE NoVal]
    /\ sparse' = SparseCell(sparse)
    /\ watch' = Append(watch, Seen("cell", 0, probe'.ok, tape, probe'.val,
                                   sparse', SparseRead(sparse)))
    /\ UNCHANGED tape
    /\ UNCHANGED << parserVars, machineVars, plan >>

\* t.mutate(f), on both tapes: f(self.cell())
PMutate ==
    /\ PairLive
    /\ \E kind \in PairMutations :
         /\ tape' = IF probe.ok /\ CellInBounds(tape)
                    THEN CellWrite(tape, MutateBy(kind, CellRead(tape)))
                    ELSE tape
         /\ probe' = [probe EXCEPT !.call = "mutate", !.arg = 0, !.from = tape.cur,
                        !.ok = @ /\ CellInBounds(tape), !.val = NoVal,
                        !.writes = IF probe.ok /\ CellInBounds(tape) THEN @ + 1 ELSE @]
         /\ sparse' = SparseWrite(sparse, MutateBy(kind, SparseRead(sparse)))
         /\ watch' = Append(watch,
                Seen("mutate", 0, probe'.ok, tape',
                     IF probe'.ok THEN MutateBy(kind, CellRead(tape)) ELSE NoVal,
                     sparse', MutateBy(kind, SparseRead(sparse))))
    /\ UNCHANGED << parserVars, machineVars, plan >>

PairNext == PWind \/ PCell \/ PMutate

PairSpec == TapeInit /\ [][PairNext]_vars

---------------------------------------------------------------------------
(* The test "has at least 30k cells" of storage.rs, on both tapes at once: *)
(* 30,000 times, read the cell, add one to it, wind one cell to the right. *)
(* watch holds the latest call only.                                       *)

\* for _ in range(0, 30000)
SweepCells == 30000

SweepLive == probe.ok /\ parsed.tag = "None" /\ result.tag = "None"

\* assert!(*t.cell() == 0): the read
SCell ==
    /\ SweepLive
    /\ probe.call \in {"new", "wind"}
    /\ probe.writes < SweepCells
    /\ probe' = [probe EXCEPT !.call = "cell", !.arg = 0, !.from = tape.cur,
                   !.ok = CellInBounds(tape),
                   !.val = IF CellInBounds(tape) THEN CellRead(tape) ELSE NoVal]
    /\ sparse' = SparseCell(sparse)
    /\ watch' = << Seen("cell", 0, probe'.ok, tape, probe'.val,
                        sparse', SparseRead(sparse)) >>
    /\ UNCHANGED tape
    /\ UNCHANGED << parserVars, machineVars, plan >>

\* t.mutate( |v|{ *v += 1; } )
SMutate ==
    /\ SweepLive
    /\ probe.call = "cell"
    /\ tape' = IF CellInBounds(tape) THEN CellWrite(tape, MutIncr(CellRead(tape)))
               ELSE tape
    /\ probe' = [probe EXCEPT !.call = "mutate", !.arg = 0, !.from = tape.cur,
                   !.ok = CellInBounds(tape), !.val = NoVal, !.writes = @ + 1]
    /\ sparse' = SparseWrite(sparse, MutIncr(SparseRead(sparse)))
    /\ watch' = << Seen("mutate", 0, probe'.ok, tape',
                        IF probe'.ok THEN MutIncr(CellRead(tape)) ELSE NoVal,
                        sparse', MutIncr(SparseRead(sparse))) >>
    /\ UNCHANGED << parserVars, machineVars, plan >>

\* t.wind(1)
SWind ==
    /\ SweepLive
    /\ probe.call = "mutate"
    /\ tape' = Wind(tape, 1)
    /\ sparse' = SparseWind(sparse, 1)
    /\ probe' = [probe EXCEPT !.call = "wind", !.arg = 1, !.from = tape.cur,
                               !.val = NoVal]
    /\ watch' = << Seen("wind", 1, probe.ok, tape', NoVal, sparse', NoVal) >>
    /\ UNCHANGED << parserVars, machineVars, plan >>

SweepNext == SCell \/ SMutate \/ SWind

SweepSpec == TapeInit /\ [][SweepNext]_vars

---------------------------------------------------------------------------
(* One machine given two programs, one run_program call after the other,   *)
(* and then a new machine, with the same input, given the two programs as  *)
(* one.                                                                    *)

RunAlphabet == {"+", ">", ",", ".", "[", "]"}
RunLoops == { << "[", "-", "]" >>, << "[", ".", "]" >>, << "[", ",", "]" >>,
              << "[", "[", "-", "]", "]" >>, << "[", "-", "[", ".", "]", "]" >> }
RunSources ==
    {s \in UNION {[1 .. n -> RunAlphabet] : n \in 0 .. MaxRunLen} \cup RunLoops :
        ParseStr(s).res = OkResult}
RunPrograms == {ParseStr(s).ops : s \in RunSources}

TwoRunInit ==
    /\ source = << >>
    /\ ppos = 0
    /\ stack = ParserInit.stack
    /\ ops = ParserInit.ops
    /\ parsed = ParserInit.res
    /\ tape = VectorTapeNew
    /\ pc = 0
    /\ frames = << >>
    /\ ret = NoResult
    /\ result = RunResult("None", 0, "")
    /\ stdin = "open"
    /\ stdout = << >>
    /\ counted = NoCount
    /\ last = NoLast
    /\ probe = NoProbe
    /\ sparse = SparseTapeNew
    /\ watch = NoWatch
    /\ \E p \in RunPrograms, q \in RunPrograms :
         plan = [NoPlan EXCEPT !.phase = "new", !.p = p, !.q = q]

\* run_program(&program): self.pc = 0; let mut cycles = 0
RunProgram(ast) ==
    /\ pc' = PcAtEntry(pc)
    /\ frames' = << NewFrame(ast) >>
    /\ result' = RunResult("Running", 0, "")

\* machine.run_program(&p)
RunFirst ==
    /\ plan.phase = "new"
    /\ RunProgram(plan.p)
    /\ plan' = [plan EXCEPT !.phase = "first"]
    /\ UNCHANGED << tape, ret, stdin, stdout, counted, last, probe, pairVars >>
    /\ UNCHANGED parserVars

\* machine.run_program(&q), on the machine the first run has left
RunSecond ==
    /\ plan.phase = "first"
    /\ result.tag = "Ok"
    /\ RunProgram(plan.q)
    /\ plan' = [plan EXCEPT !.phase = "second", !.cycles = result.cycles]
    /\ UNCHANGED << tape, ret, stdin, stdout, counted, last, probe, pairVars >>
    /\ UNCHANGED parserVars

\* Machine::new(), with the input and the output started again
NewMachine ==
    /\ plan.phase = "second"
    /\ result.tag = "Ok"
    /\ plan' = [plan EXCEPT !.phase = "fresh", !.log = << >>,
                  !.memo = [tape |-> tape, stdout |-> stdout, log |-> plan.log,
                            cycles |-> UAdd(plan.cycles, result.cycles)]]
    /\ tape' = VectorTapeNew
    /\ pc' = 0
    /\ result' = RunResult("None", 0, "")
    /\ stdin' = "open"
    /\ stdout' = << >>
    /\ counted' = NoCount
    /\ last' = NoLast
    /\ UNCHANGED << frames, ret, probe, pairVars >>
    /\ UNCHANGED parserVars

\* machine.run_program(&pq), pq the operators of p followed by those of q
RunJoined ==
    /\ plan.phase = "fresh"
    /\ RunProgram(plan.p \o plan.q)
    /\ plan' = [plan EXCEPT !.phase = "joined"]
    /\ UNCHANGED << tape, ret, stdin, stdout, counted, last, probe, pairVars >>
    /\ UNCHANGED parserVars

TwoRunNext == RunFirst \/ RunSecond \/ NewMachine \/ RunJoined \/ MachineStep

TwoRunSpec == TwoRunInit /\ [][TwoRunNext]_vars

\* One thread runs the experiment and nothing suspends it.
FairTwoRunSpec == TwoRunSpec /\ WF_vars(TwoRunNext)

---------------------------------------------------------------------------
(* Claims.                                                                 *)

Cell == CellRead(tape)
Finished == result.tag \in {"Ok", "Err", "Fail"}

\* The machine is about to run exactly the program [-]: the loop is all
\* that is left of the top-level sequence, and the current cell is not zero.
AtClearLoop ==
    /\ AtOp
    /\ Depth = 1
    /\ pc + 1 = Len(Top.ast)
    /\ CurOp = Sub(<< Op("Decr") >>)
    /\ Cell # 0

NestedClear == << Sub(<< Sub(<< Op("Decr") >>), Op("Decr") >>) >>

\* The machine is about to run exactly the program [[-]-] on a cell holding 2.
AtNestedClear ==
    /\ AtOp
    /\ Depth = 1
    /\ pc + 1 = Len(Top.ast)
    /\ << CurOp >> = NestedClear
    /\ Cell = 2

\* C2, as stated: [[-]-] started on a cell holding 2 terminates.
C2_NestedClearTerminates == AtNestedClear ~> (result.tag = "Ok")

NestedSource == << "+", "+", "[", "[", "-", "]", "-", "]" >>

\* C2, amended: [[-]-] started on a cell holding 2 never returns. Every
\* inner loop is left with the cell at zero, the decrement after it wraps
\* the cell to 255, so the outer condition only ever sees 2 or 255.
C2_NestedClearNeverReturns ==
    source = NestedSource =>
        /\ ~Finished
        /\ (Depth = 1 /\ Top.inloop) => Cell \in {2, CellMod - 1}
        /\ (last.op = "Sub" /\ last.io = "exit") => (last.depth = 2 /\ Cell = 0)

\* The outer condition is tested after three inner loops have finished.
C2_Witness ==
    /\ source = NestedSource
    /\ Depth = 1
    /\ Top.inloop
    /\ Cell = CellMod - 1
    /\ counted.subs = 3

---------------------------------------------------------------------------
\* The classic check of balanced brackets, on the text alone.
Count(s, ch, n) == Cardinality({i \in 1 .. n : s[i] = ch})
Excess(s, n) == Count(s, "[", n) - Count(s, "]", n)
BadPrefixes(s) == {n \in 1 .. Len(s) : Excess(s, n) < 0}
FirstBadClose(s) ==
    IF BadPrefixes(s) = {} THEN 0
    ELSE CHOOSE n \in BadPrefixes(s) : \A m \in BadPrefixes(s) : n <= m
Balanced(s) == BadPrefixes(s) = {} /\ Excess(s, Len(s)) = 0
RemoveAt(s, i) == SubSeq(s, 1, i - 1) \o SubSeq(s, i + 1, Len(s))
\* s is a balanced source with one ] inserted somewhere.
ExtraClose(s) == \E i \in 1 .. Len(s) : s[i] = "]" /\ Balanced(RemoveAt(s, i))
\* s is a balanced source with its final ] removed.
MissingFinalClose(s) ==
    \E j \in 0 .. Len(s) :
        /\ \A i \in j + 1 .. Len(s) : s[i] # "]"
        /\ Balanced(SubSeq(s, 1, j) \o << "]" >> \o SubSeq(s, j + 1, Len(s)))

\* C3: parse_str succeeds exactly on the balanced sources; it fails with
\* the unmatched-closing error at the first ] read while no loop is open,
\* and with the unmatched-opening error at the end of the input when a loop
\* is still open; one extra ] in a balanced source gives the first error,
\* the final ] removed from a balanced source gives the second.
C3_BracketMatching ==
    parsed.tag # "None" =>
        /\ parsed.tag = "Ok" <=> Balanced(source)
        /\ parsed = ErrResult(ErrClose) <=> FirstBadClose(source) > 0
        /\ parsed = ErrResult(ErrClose) => ppos = FirstBadClose(source)
        /\ parsed = ErrResult(ErrOpen) <=>
               (FirstBadClose(source) = 0 /\ Excess(source, Len(source)) > 0)
        /\ parsed = ErrResult(ErrOpen) => ppos = Len(source)
        /\ ExtraClose(source) => parsed = ErrResult(ErrClose)
        /\ MissingFinalClose(source) => parsed = ErrResult(ErrOpen)

\* A balanced loop with its final ] removed has been refused at the end of the input.
C3_Witness ==
    /\ source = << "[", "[", "a", "]" >>
    /\ MissingFinalClose(source)
    /\ parsed = ErrResult(ErrOpen)
    /\ ppos = 4

---------------------------------------------------------------------------
\* A read has been asked of the tape since the latest wind.
ReadAsked == probe.call = "cell"

\* C4, as stated: once the head of a fresh dense tape has been wound right
\* 30,000 times or more, reading the cell succeeds and gives zero.
C4_ReadPastEndIsZero ==
    (tape.cur >= VecLen /\ ReadAsked) => (probe.ok /\ probe.val = 0)

\* C5: the head of the dense tape is never negative; wind(-1) at head 0
\* leaves the head at 0, and the cell read there is cell 0.
C5_HeadNeverNegative ==
    /\ tape.cur >= 0
    /\ (probe.call = "wind" /\ probe.from = 0 /\ probe.arg = -1) => tape.cur = 0
    /\ (ReadAsked /\ probe.ok) => probe.val = VecGet(tape.storage, tape.cur)

\* wind(-1) has been issued at head 0 of a tape whose cell 0 holds 1.
C5_Witness ==
    /\ probe.call = "wind"
    /\ probe.arg = -1
    /\ probe.from = 0
    /\ tape.cur = 0
    /\ VecGet(tape.storage, 0) = 1

---------------------------------------------------------------------------
RECURSIVE SumCycles(_)
SumCycles(fs) == IF fs = << >> THEN 0 ELSE fs[1].cycles + SumCycles(Tail(fs))

LoopFree(s) == \A i \in 1 .. Len(s) : s[i] \notin {"[", "]"}

---------------------------------------------------------------------------
ErrRaised == ret.tag = "Err" \/ result.tag = "Err"
ErrMsg == IF result.tag = "Err" THEN result.msg ELSE ret.msg
Frozen ==
    /\ tape' = tape
    /\ stdout' = stdout
    /\ stdin' = stdin
    /\ counted' = counted

\* C8: a failed write aborts the run at once, at any depth: the error is in
\* flight in the very next state, every enclosing call passes it on
\* unchanged until main has it, and from the failed write on no cell, head
\* position, output or input changes and no operator is counted.
C8_WriteFailureAborts ==
    /\ [](ErrRaised => (ErrMsg = ErrWrite /\ last.io \in {"werr", "unwind"}))
    /\ [](last.io \in {"werr", "unwind"} => ErrRaised)
    /\ [](ret.tag = "Err" => ENABLED Propagate)
    /\ [](result.tag = "Err" => (frames = << >> /\ ~ENABLED Next))
    /\ [][(AtOp /\ CurOp.op = "Put" /\ last'.io = "werr") =>
            (Frozen /\ Len(frames') = Len(frames) - 1)]_vars
    /\ [][ret.tag = "Err" =>
            (Frozen /\ ErrMsg' = ErrMsg /\ Len(frames') = Len(frames) - 1)]_vars

NestedPutSource == << "+", "[", "[", ".", "]", ">", "+", "]" >>

\* A write two loops deep has failed after one byte went out, and the error
\* has come back to main through both loops.
C8_Witness ==
    /\ source = NestedPutSource
    /\ result = RunResult("Err", 0, ErrWrite)
    /\ last.io = "unwind"
    /\ last.depth = 1
    /\ stdout = << 1 >>

\* C9: a read at the end of the input sets the current cell to zero and the
\* run goes on with the next operator; no read ends the run or raises an error.
C9_EofReadsZero ==
    /\ (last.op = "Get" /\ last.io = "eof") =>
           (Cell = 0 /\ stdin = "eof" /\ pc = last.pc + 1 /\ Depth = last.depth)
    /\ last.op = "Get" => (Running /\ ~ErrRaised)

\* A cell holding 1 has been overwritten by a read at the end of the input.
C9_Witness ==
    /\ last.op = "Get"
    /\ last.io = "eof"
    /\ last.cell = 1
    /\ Cell = 0

\* C10: cell arithmetic is modulo 256: a decrement of 0 leaves 255, an
\* increment of 255 leaves 0, and every cell holds a value in 0 .. 255.
C10_CellsWrap ==
    /\ \A r \in tape.storage.set : r.val \in 0 .. CellMod - 1
    /\ tape.storage.fill \in 0 .. CellMod - 1
    /\ (last.op = "Decr" /\ last.cell = 0) => Cell = CellMod - 1
    /\ (last.op = "Incr" /\ last.cell = CellMod - 1) => Cell = 0

\* A decrement has wrapped a zero cell to 255 and an increment has wrapped it back.
C10_Witness ==
    /\ source = << "-", "+" >>
    /\ last.op = "Incr"
    /\ last.cell = CellMod - 1
    /\ Cell = 0

---------------------------------------------------------------------------
\* A loop delimiter somewhere in a program, at any depth.
RECURSIVE HasDelimiter(_)
HasDelimiter(ast) ==
    \E i \in 1 .. Len(ast) :
        \/ ast[i].op \in {"Skip", "Loop"}
        \/ ast[i].op = "Sub" /\ HasDelimiter(ast[i].ast)

\* The ] that closes the [ at position i of a balanced text.
CloseOf(s, i) ==
    CHOOSE j \in i + 1 .. Len(s) :
        /\ Excess(s, j) = Excess(s, i - 1)
        /\ \A k \in i .. j - 1 : Excess(s, k) > Excess(s, i - 1)

\* The program a balanced text s[lo .. hi] stands for, read off the text by
\* descent: a bracket pair is one nested program holding what lies between.
RECURSIVE TreeOf(_, _, _)
TreeOf(s, lo, hi) ==
    IF lo > hi THEN << >>
    ELSE IF s[lo] = "["
    THEN << Sub(TreeOf(s, lo + 1, CloseOf(s, lo) - 1)) >>
             \o TreeOf(s, CloseOf(s, lo) + 1, hi)
    ELSE << FromStr(s[lo]) >> \o TreeOf(s, lo + 1, hi)

\* C11: a program parse_str returns holds no enter-loop or exit-loop
\* operator at any depth; every matched pair of brackets has become one
\* nested-program operator whose body is the parse of the text between them.
C11_NoDelimitersAfterParse ==
    parsed.tag = "Ok" =>
        /\ ~HasDelimiter(ops)
        /\ ops = TreeOf(source, 1, Len(source))
        /\ stack = << >>

\* A loop inside a loop, each reduced to one nested program.
C11_Witness ==
    /\ source = << "[", "[", "]", "]" >>
    /\ parsed.tag = "Ok"
    /\ ops = << Sub(<< Sub(<< >>) >>) >>

\* C12: the text of a parsed program parses again, to the same program at
\* every depth.
C12_ShowThenParseIsSame ==
    parsed.tag = "Ok" =>
        LET again == ParseStr(ShowAst(ops))
        IN  /\ again.res = OkResult
            /\ again.ops = ops
            /\ again.stack = << >>

\* A program with a comment inside a loop has been parsed; its text has brackets.
C12_Witness ==
    /\ source = << "a", "[", "a", "]" >>
    /\ parsed.tag = "Ok"
    /\ ShowAst(ops) = << "a", "[", "a", "]" >>
    /\ ParseStr(ShowAst(ops)).ops = ops

---------------------------------------------------------------------------
OperatorChars == {"+", "-", "<", ">", "[", "]", ".", ","}

\* C20: comments are kept. The text of a parsed program is its source,
\* char for char; a char that is no operator is a comment operator at its
\* own position; executing a comment counts one cycle, moves on to the
\* next operator and touches neither the tape nor the output.
C20_CommentsRetained ==
    /\ []((parsed.tag = "Ok" /\ result.tag = "None") => ShowAst(ops) = source)
    /\ []((parsed.tag = "Ok" /\ result.tag = "None" /\ LoopFree(source)) =>
            \A i \in 1 .. Len(source) :
                source[i] \notin OperatorChars => ops[i] = Nop(source[i]))
    /\ [][(AtOp /\ CurOp.op = "Nop") =>
            /\ frames'[Depth].cycles = UAdd(Top.cycles, 1)
            /\ pc' = pc + 1
            /\ tape' = tape
            /\ stdout' = stdout]_vars

\* a+a has been run: three operators, two of them comments, three cycles.
C20_Witness ==
    /\ source = << "a", "+", "a" >>
    /\ ops = << Nop("a"), Op("Incr"), Nop("a") >>
    /\ ShowAst(ops) = source
    /\ counted.prims = 3
    /\ result = RunResult("Ok", 3, "")

---------------------------------------------------------------------------
\* C17: a run walks its sequence in order and a loop resumes after itself.
\* Reaching a nested program at position p records p; the record of every
\* call on the stack stays what it is while deeper calls run and return;
\* the loop is left at p + 1 of the same sequence; an operator other than a
\* loop is followed by the next position; a pass starts at position 0; and
\* every call below the top is inside the loop whose body is run above it.
C17_SubResumesAfterItself ==
    /\ [](Running =>
            /\ ~Top.inloop => pc <= Len(Top.ast)
            /\ \A i \in 1 .. Depth - 1 :
                 /\ frames[i].inloop
                 /\ frames[i].ast[frames[i].saved + 1] = Sub(frames[i + 1].ast))
    /\ [][(AtOp /\ CurOp.op = "Sub") =>
            /\ Len(frames') = Depth
            /\ frames'[Depth].inloop
            /\ frames'[Depth].saved = pc
            /\ frames'[Depth].ast = Top.ast]_vars
    /\ [][\A i \in 1 .. Depth :
            (frames[i].inloop /\ i <= Len(frames') /\ frames'[i].inloop) =>
                /\ frames'[i].saved = frames[i].saved
                /\ frames'[i].ast = frames[i].ast]_vars
    /\ [][(Running /\ Top.inloop /\ Len(frames') = Depth
                   /\ ~frames'[Depth].inloop) =>
            /\ Top.ast[Top.saved + 1].op = "Sub"
            /\ frames'[Depth].ast = Top.ast
            /\ pc' = Top.saved + 1]_vars
    /\ [][(AtOp /\ CurOp.op # "Sub" /\ Running') =>
            /\ Len(frames') = Depth
            /\ frames'[Depth].ast = Top.ast
            /\ pc' = pc + 1]_vars
    /\ [][(Running /\ Len(frames') = Depth + 1) =>
            /\ pc' = 0
            /\ ~frames'[Depth + 1].inloop]_vars

\* In +[[-]]a the outer loop, whose one pass ran the inner loop, has been
\* left at position 1 and the run goes on with the comment at position 2.
C17_Witness ==
    /\ source = << "+", "[", "[", "-", "]", "]", "a" >>
    /\ last.io = "exit"
    /\ last.depth = 1
    /\ last.pc = 1
    /\ counted.subs = 2
    /\ AtOp
    /\ pc = 2
    /\ CurOp = Nop("a")

---------------------------------------------------------------------------
\* The calls made so far on the two tapes.
Calls == 1 .. Len(watch)
\* The heads before call k.
SparseHeadBefore(k) == IF k = 1 THEN 0 ELSE watch[k - 1].scur
DenseHeadBefore(k) == IF k = 1 THEN 0 ELSE watch[k - 1].dcur
Latest(ks) == CHOOSE k \in ks : \A j \in ks : j <= k
\* The value the latest mutate before call k wrote at a position; zero if none did.
SparseWritten(k, pos) ==
    LET ws == {j \in 1 .. k - 1 : watch[j].call = "mutate" /\ watch[j].scur = pos}
    IN  IF ws = {} THEN 0 ELSE watch[Latest(ws)].sval
DenseWritten(k, pos) ==
    LET ws == {j \in 1 .. k - 1 : watch[j].call = "mutate" /\ watch[j].dcur = pos}
    IN  IF ws = {} THEN 0 ELSE watch[Latest(ws)].dval
\* What a read of the sparse tape at a position would return.
SparseValue(t, pos) == IF RunsHas(t.storage, pos) THEN RunsAt(t.storage, pos) ELSE 0

\* C13: the sparse tape never clamps. Every wind moves the head by exactly
\* its offset, to the left of zero as well; no other call moves it; a wind
\* followed by the opposite wind is back at the cell it left; and a read
\* returns what was last written at that cell, or zero.
C13_SparseWindNeverClamps ==
    /\ watch # << >> => sparse.cur = watch[Len(watch)].scur
    /\ \A k \in Calls :
         /\ watch[k].call = "wind" =>
                watch[k].scur = SparseHeadBefore(k) + watch[k].arg
         /\ watch[k].call # "wind" => watch[k].scur = SparseHeadBefore(k)
         /\ (k > 1 /\ watch[k].call = "wind" /\ watch[k - 1].call = "wind"
                   /\ watch[k].arg = 0 - watch[k - 1].arg) =>
                watch[k].scur = SparseHeadBefore(k - 1)
         /\ watch[k].call = "cell" =>
                watch[k].sval = SparseWritten(k, watch[k].scur)

\* Cell 0 written, the head wound 50000 cells to the left of it, that cell
\* written too, the head wound back: the read returns what cell 0 was given.
C13_Witness ==
    /\ Len(watch) >= 5
    /\ watch[1].call = "mutate"
    /\ watch[1].sval = 1
    /\ watch[2].call = "wind" /\ watch[2].arg = 0 - FarOffset
    /\ watch[2].scur = 0 - FarOffset
    /\ watch[3].call = "mutate"
    /\ watch[3].sval = CellMod - 1
    /\ watch[4].call = "wind" /\ watch[4].arg = FarOffset
    /\ watch[5].call = "cell"
    /\ watch[5].scur = 0
    /\ watch[5].sval = 1
    /\ SparseValue(sparse, 0 - FarOffset) = CellMod - 1

---------------------------------------------------------------------------
\* Positions enough to tell whether a step has changed a cell of a tape.
DenseKeys == RunsEdges(tape.storage.set) \cup RunsEdges(tape'.storage.set)
SparseKeys == RunsEdges(sparse.storage) \cup RunsEdges(sparse'.storage)
\* The call a step of the driver makes.
Called == watch'[Len(watch')]
DenseCellsKeptBut(except) ==
    /\ tape'.storage.len = tape.storage.len
    /\ tape'.storage.fill = tape.storage.fill
    /\ \A pos \in DenseKeys \ except :
         VecGet(tape'.storage, pos) = VecGet(tape.storage, pos)
SparseCellsKeptBut(except) ==
    \A pos \in SparseKeys \ except :
        SparseValue(sparse', pos) = SparseValue(sparse, pos)

\* C15: on both tapes a write changes the cell under the head and nothing
\* else: not another cell, not the head. A wind changes the head and no
\* cell, a read changes neither, and a read returns what was last written
\* at the position the head is on (zero if nothing was).
C15_WriteChangesOnlyCurrentCell ==
    /\ [](\A k \in Calls :
            watch[k].call = "cell" =>
                /\ watch[k].sval = SparseWritten(k, watch[k].scur)
                /\ watch[k].ok => watch[k].dval = DenseWritten(k, watch[k].dcur))
    /\ [][(watch' # watch /\ Called.call = "mutate") =>
            /\ sparse'.cur = sparse.cur
            /\ SparseValue(sparse', sparse.cur) = Called.sval
            /\ SparseCellsKeptBut({sparse.cur})
            /\ tape'.cur = tape.cur
            /\ DenseCellsKeptBut({tape.cur})
            /\ Called.ok => VecGet(tape'.storage, tape.cur) = Called.dval]_vars
    /\ [][(watch' # watch /\ Called.call = "wind") =>
            /\ SparseCellsKeptBut({})
            /\ DenseCellsKeptBut({})]_vars
    /\ [][(watch' # watch /\ Called.call = "cell") =>
            /\ sparse'.cur = sparse.cur
            /\ SparseCellsKeptBut({})
            /\ tape' = tape]_vars

\* The test of storage.rs: a cell written, the next cell written with
\* another value, the head wound back: the first value is read again.
C15_Witness ==
    /\ Len(watch) >= 5
    /\ watch[1].call = "mutate" /\ watch[1].dval = 1 /\ watch[1].sval = 1
    /\ watch[2].call = "wind" /\ watch[2].arg = 1
    /\ watch[3].call = "mutate" /\ watch[3].dval = CellMod - 1
    /\ watch[3].sval = CellMod - 1
    /\ watch[4].call = "wind" /\ watch[4].arg = -1
    /\ watch[5].call = "cell" /\ watch[5].ok
    /\ watch[5].dval = 1 /\ watch[5].sval = 1
    /\ VecGet(tape.storage, 1) = CellMod - 1
    /\ SparseValue(sparse, 1) = CellMod - 1

\* The head has stayed on the cells both tapes have, up to call k.
Within(k) == \A j \in 1 .. k : watch[j].scur \in 0 .. VecLen - 1

\* C16: as long as the head is never wound to the left of cell 0 nor to the
\* right of cell 29,999, the two tapes cannot be told apart: after every
\* call both heads are on the same position, no call fails, and every read
\* (and every value a mutate computes from the cell) is the same.
C16_TapesAgreeWithinRange ==
    /\ \A k \in Calls :
         Within(k) => /\ watch[k].ok
                      /\ watch[k].dcur = watch[k].scur
                      /\ watch[k].dval = watch[k].sval
    /\ Within(Len(watch)) =>
         /\ tape.cur = sparse.cur
         /\ \A pos \in RunsEdges(tape.storage.set) \cup RunsEdges(sparse.storage) :
              VecGet(tape.storage, pos) = SparseValue(sparse, pos)

\* The last cell of the dense tape written and read back, then the head
\* wound one cell to the left and that cell read: the same on both tapes.
C16_Witness ==
    /\ Len(watch) >= 5
    /\ Within(5)
    /\ watch[1].call = "wind" /\ watch[1].dcur = VecLen - 1
    /\ watch[2].call = "mutate"
    /\ watch[3].call = "cell" /\ watch[3].dval = 1 /\ watch[3].sval = 1
    /\ watch[4].call = "wind" /\ watch[4].scur = VecLen - 2
    /\ watch[5].call = "cell" /\ watch[5].dval = 0 /\ watch[5].sval = 0

---------------------------------------------------------------------------
\* C14: both tapes have at least 30,000 cells that start at zero. In the
\* sweep of a fresh tape of either kind no call fails, the heads are on the
\* same cell, one cell further right after each round, every read returns
\* zero, every write leaves one, and the cells are separate: those already
\* swept hold one and the others zero.
C14_ThirtyThousandZeroCells ==
    /\ probe.ok
    /\ tape.cur = sparse.cur
    /\ tape.cur = IF probe.call = "mutate" THEN probe.writes - 1 ELSE probe.writes
    /\ watch # << >> =>
         /\ watch[1].ok
         /\ watch[1].call = "cell" => (watch[1].dval = 0 /\ watch[1].sval = 0)
         /\ watch[1].call = "mutate" => (watch[1].dval = 1 /\ watch[1].sval = 1)
    /\ \A pos \in (RunsEdges(tape.storage.set) \cup RunsEdges(sparse.storage)
                     \cup {0, tape.cur}) \cap (0 .. VecLen - 1) :
         /\ VecGet(tape.storage, pos) = IF pos < probe.writes THEN 1 ELSE 0
         /\ SparseValue(sparse, pos) = IF pos < probe.writes THEN 1 ELSE 0

\* The sweep has ended: 30,000 cells read, written and left behind.
C14_Witness ==
    /\ probe.call = "wind"
    /\ probe.writes = SweepCells
    /\ tape.cur = SweepCells
    /\ sparse.cur = SweepCells
    /\ VecGet(tape.storage, SweepCells - 1) = 1
    /\ SparseValue(sparse, SweepCells - 1) = 1

---------------------------------------------------------------------------
\* The joined run is where it can go on: not held at a write by the bound
\* on the output, nor at a read by the bound on the input.
JoinedHeld ==
    /\ AtOp
    /\ \/ CurOp.op = "Put" /\ Len(stdout) >= MaxOut
       \/ CurOp.op = "Get" /\ Len(plan.log) >= MaxIn

\* C19: two runs on one machine share the tape and nothing else. When P
\* and then Q have returned Ok on one machine, the run of P followed by Q
\* as one program, on a new machine given the same input, that returns Ok
\* has left the same cells, the same head and the same output, has read
\* the same input, and reports the sum of the two counts; and unless a
\* write fails it does return Ok.
C19_TwoRunsAreOneRun ==
    /\ []((plan.phase = "joined" /\ result.tag = "Ok") =>
            /\ tape = plan.memo.tape
            /\ stdout = plan.memo.stdout
            /\ plan.log = plan.memo.log
            /\ result.cycles = plan.memo.cycles)
    /\ [](plan.phase = "joined" => (result.tag # "Fail" /\ ~JoinedHeld))
    /\ (plan.phase = "joined") ~> (result.tag \in {"Ok", "Err"})

\* A read and then a clear loop: the byte 1 read by the first run is
\* cleared by the second, one cycle and two; the joined run reports three.
C19_Witness ==
    /\ plan.phase = "joined"
    /\ plan.p = << Op("Get") >>
    /\ plan.q = << Sub(<< Op("Decr") >>) >>
    /\ plan.memo.log = << [kind |-> "byte", byte |-> 1] >>
    /\ plan.memo.cycles = 3
    /\ result = RunResult("Ok", 3, "")
    /\ Cell = 0

===========================================================================
